---- MODULE Spec2Model ----
(***************************************************************************)
(* User-process virtual memory of the kernel: the page-fault handler       *)
(* (userprog/exception.c) and the system calls mmap, munmap, read and exit *)
(* (userprog/syscall.c), with the supplemental page table, the frame       *)
(* table, the swap area and the page directory they drive.                 *)
(*                                                                         *)
(* A 32-bit address is a record [pg, ofs]: pg the page number (address     *)
(* div PGSIZE), ofs the offset in the page, so that byte-exact pointer     *)
(* comparisons are kept without leaving the integer range.                 *)
(***************************************************************************)
EXTENDS Integers, Sequences, FiniteSets, TLC

\* ------------------------------------------------------------- bounds
MaxAccess == 2       \* memory accesses of user code, thread 1 running alone
MaxMmap == 3         \* calls of mmap
MaxMunmap == 1       \* calls of munmap
MaxAccessMT == 1     \* memory accesses of each of two threads running together
MaxReadMT == 1       \* calls of read of the first of them
MaxAccessF == 3      \* memory accesses, thread 1 running alone with failing I/O
MaxFail == 1         \* failures of file_read and pagedir_set_page
NFrames == 2         \* frames of the user pool
NSlots == 3          \* slots of the swap area

\* ---------------------------------------------------------- addresses
PGSIZE == 4096
NPAGES == 1024 * 1024                 \* pages of a 32-bit address space
STACK_MAX == 8388608                  \* 0x800000
STACK_HEURISTIC == 32
KPAGE == 0 - 1                        \* a page of the kernel pool (palloc_get_page(0))

Addr(pg, ofs) == [pg |-> pg, ofs |-> ofs]
NULL == Addr(0, 0)
PHYS_BASE == Addr(786432, 0)          \* 0xC0000000

\* a test that takes PHYS_BASE itself for a user address
is_user_vaddr_incl(a) == a.pg <= PHYS_BASE.pg
is_user_vaddr(a) == a.pg < PHYS_BASE.pg
pg_round_down(a) == a.pg
pg_ofs(a) == a.ofs
pg_addr(pg) == Addr(pg, 0)

\* pointer arithmetic modulo 2^32
ptr_add(a, n) ==
    LET s == a.ofs + n
    IN  Addr((a.pg + ((s - (s % PGSIZE)) \div PGSIZE)) % NPAGES, s % PGSIZE)
ptr_sub(a, n) == ptr_add(a, 0 - n)
ptr_ge(a, b) == a.pg > b.pg \/ (a.pg = b.pg /\ a.ofs >= b.ofs)
ptr_le(a, b) == ptr_ge(b, a)

Threads == {1, 2}
Frames == 1..NFrames
Slots == 1..NSlots

\* the pages of the address space the model follows
CodePg == 32840                       \* 0x08048000, the executable's text page (read-only)
DataPg == CodePg + 1                  \* the executable's data page (writable)
DataStart == Addr(DataPg, 0)          \* the thread's data_segment_start
M0 == 131072                          \* 0x20000000
M1 == M0 + 1
TopPg == PHYS_BASE.pg - 1             \* the initial stack page
SecondPg == PHYS_BASE.pg - 2
LimitPg == PHYS_BASE.pg - (STACK_MAX \div PGSIZE)   \* page of PHYS_BASE - 8 MiB
BelowPg == LimitPg - 1
VPages == {CodePg, DataPg, M0, M1, LimitPg, SecondPg, TopPg}

\* files: the executable and two data files; lengths in bytes
EXE == 1
F1 == 2
F2 == 3
F3 == 4
Files == {EXE, F1, F2, F3}
file_length(f) ==
    CASE f = EXE -> 2 * PGSIZE
      [] f = F1 -> 100
      [] f = F2 -> PGSIZE + 100
      [] OTHER -> 0
FilePages(f) == (file_length(f) + PGSIZE - 1) \div PGSIZE
\* the thread's descriptor table: 0 is no open file
Fds == {0, 2, 3, 4, 5}
fd_table(fd) ==
    CASE fd = 2 -> F1
      [] fd = 3 -> F2
      [] fd = 4 -> F3
      [] OTHER -> 0

\* page contents: 0 zero-filled, 1 what the files hold at the start,
\* Mark(pg) what a user store to page pg leaves there
ORIG == 1
Mark(pg) ==
    CASE pg = M0 -> 2
      [] pg = M1 -> 3
      [] OTHER -> 5

VARIABLES
    pc,          \* per thread: "user", "retry", "sys", "exiting", "dead"
    ops,         \* per thread: user-level operations left
    acc,         \* per thread: the user instruction's access being executed
    sys,         \* per thread: the system call being serviced
    pf,          \* per thread: the page fault being handled; its pc is "none", "entry",
                 \* the branch being served after frame_alloc, or "exit"
    esp,         \* per thread: thread->esp
    exit_status, \* per thread: thread->exit_status
    eax,         \* per thread: the last system call's return value
    spt,         \* per thread: the supplemental page table, by page
    pagedir,     \* per thread: the page directory, by page
    mmap_table,  \* per thread: the list of mappings
    frames,      \* the frame table
    swap,        \* the swap area
    files,       \* the files' contents, by page index
    filesys_lock,\* holder of filesys_lock, 0 when free
    reopened,    \* handles made by file_reopen and not closed
    unmap_log,   \* per thread: the unmap operations run, with what each wrote and removed
    panic        \* the kernel has panicked

vars == <<pc, ops, acc, sys, pf, esp, exit_status, eax, spt, pagedir, mmap_table,
          frames, swap, files, filesys_lock, reopened, unmap_log, panic>>

\* ------------------------------------------------------------ records
NoPage == [purpose |-> "NONE", page_file |-> 0, ofs |-> 0, read_bytes |-> 0,
           zero_bytes |-> 0, is_writable |-> FALSE, frame_addr |-> 0,
           is_swapped |-> FALSE, swap_i |-> 0]
NoPTE == [present |-> FALSE, frame |-> 0, writable |-> FALSE, dirty |-> FALSE]
NoFrame == [in_use |-> FALSE, page_addr |-> 0, owner_thread |-> 0,
            is_evictable |-> FALSE, data |-> 0]
NoSlot == [used |-> FALSE, data |-> 0]
NoAcc == [addr |-> NULL, write |-> FALSE, esp |-> NULL]
NoSys == [op |-> "none", pc |-> "none", f_esp |-> NULL, fd |-> 0, addr |-> NULL,
          id |-> 0, read_bytes |-> 0, ofs |-> 0, upage |-> 0]
NoPf == [pc |-> "none", fault_addr |-> NULL, write |-> FALSE, user |-> FALSE,
         f_esp |-> NULL, kpage |-> 0, swap_i |-> 0]

\* SPT_insert's new entry
NewPage(file, ofs, kpage, read_bytes, zero_bytes, writable, purpose) ==
    [purpose |-> purpose, page_file |-> file, ofs |-> ofs, read_bytes |-> read_bytes,
     zero_bytes |-> zero_bytes, is_writable |-> writable, frame_addr |-> kpage,
     is_swapped |-> FALSE, swap_i |-> 0]

\* SPT_search: the entry of the thread for the page, NoPage when it has none
SPT_search(t, pg) == IF pg \in VPages THEN spt[t][pg] ELSE NoPage

\* pagedir_get_page: the frame the page is mapped to, 0 when not present
pagedir_get_page(t, a) ==
    IF a.pg \in VPages /\ pagedir[t][a.pg].present THEN pagedir[t][a.pg].frame ELSE 0
pagedir_is_dirty(t, pg) == pagedir[t][pg].present /\ pagedir[t][pg].dirty

\* ---------------------------------------------------------------- Init
\* After load: the text page is registered lazily, the first stack page is
\* resident, thread->esp is zero as init_thread leaves it.
InitOf(live) ==
    /\ pc = [t \in Threads |-> IF t \in live THEN "user" ELSE "dead"]
    /\ acc = [t \in Threads |-> NoAcc]
    /\ sys = [t \in Threads |-> NoSys]
    /\ pf = [t \in Threads |-> NoPf]
    /\ esp = [t \in Threads |-> NULL]
    /\ exit_status = [t \in Threads |-> 0]
    /\ eax = [t \in Threads |-> 0]
    /\ spt = [t \in Threads |-> [pg \in VPages |->
                 CASE t \in live /\ pg = CodePg ->
                        NewPage(EXE, 0, 0, PGSIZE, 0, FALSE, "FOR_FILE")
                   [] t \in live /\ pg = DataPg ->
                        NewPage(EXE, PGSIZE, 0, PGSIZE, 0, TRUE, "FOR_FILE")
                   [] t \in live /\ pg = TopPg ->
                        NewPage(0, 0, t, 0, PGSIZE, TRUE, "FOR_STACK")
                   [] OTHER -> NoPage]]
    /\ pagedir = [t \in Threads |-> [pg \in VPages |->
                 IF t \in live /\ pg = TopPg
                 THEN [present |-> TRUE, frame |-> t, writable |-> TRUE, dirty |-> FALSE]
                 ELSE NoPTE]]
    /\ mmap_table = [t \in Threads |-> <<>>]
    /\ frames = [f \in Frames |->
                 IF f \in live
                 THEN [in_use |-> TRUE, page_addr |-> TopPg, owner_thread |-> f,
                       is_evictable |-> TRUE, data |-> 0]
                 ELSE NoFrame]
    /\ swap = [s \in Slots |-> NoSlot]
    /\ files = [f \in Files |-> [i \in 0..(FilePages(f) - 1) |-> ORIG]]
    /\ filesys_lock = 0
    /\ reopened = 0
    /\ unmap_log = [t \in Threads |-> <<>>]
    /\ panic = FALSE

NoOps == [access |-> 0, mmap |-> 0, munmap |-> 0, read |-> 0, fail |-> 0]
\* one process
Init ==
    /\ InitOf({1})
    /\ ops = [t \in Threads |->
                IF t = 1 THEN [access |-> MaxAccess, mmap |-> MaxMmap, munmap |-> MaxMunmap,
                               read |-> 0, fail |-> 0]
                ELSE NoOps]
\* two processes
InitMT ==
    /\ InitOf(Threads)
    /\ ops = [t \in Threads |->
                [access |-> MaxAccessMT, mmap |-> 0, munmap |-> 0,
                 read |-> IF t = 1 THEN MaxReadMT ELSE 0, fail |-> 0]]
\* one process, whose file reads and page-table installs can fail
InitF ==
    /\ InitOf({1})
    /\ ops = [t \in Threads |->
                IF t = 1 THEN [NoOps EXCEPT !.access = MaxAccessF, !.fail = MaxFail]
                ELSE NoOps]

\* --------------------------------------------------- frame table, swap
Min(S) == CHOOSE x \in S : \A y \in S : x <= y
FreeFrames == {f \in Frames : ~frames[f].in_use}
FreeSlots == {s \in Slots : ~swap[s].used}

\* Eviction candidates: a frame in use that is not pinned.  The clock hand and
\* the accessed bits decide which; any of them can be the one.
Victims == {f \in Frames : frames[f].in_use /\ frames[f].is_evictable}

\* frame_alloc takes the first free frame, and a victim when none is free
AllocChoices == IF FreeFrames # {} THEN {Min(FreeFrames)} ELSE Victims

\* The victim's tenant, re-resolved through the owner's SPT
Tenant(v) ==
    IF frames[v].in_use /\ frames[v].owner_thread \in Threads
       /\ frames[v].page_addr \in VPages
    THEN spt[frames[v].owner_thread][frames[v].page_addr]
    ELSE NoPage

\* What eviction does with the victim's contents:
\* "swap" (STACK, dirty FILE), "file" (dirty MMAP), "discard" (clean FILE/MMAP),
\* "none" (no tenant to detach)
EvictKind(v) ==
    LET e == Tenant(v)
        dirty == pagedir_is_dirty(frames[v].owner_thread, frames[v].page_addr)
    IN  CASE e.purpose = "NONE" -> "none"
          [] e.purpose = "FOR_STACK" -> "swap"
          [] e.purpose = "FOR_FILE" /\ dirty -> "swap"
          [] e.purpose = "FOR_MMAP" /\ dirty /\ e.is_writable -> "file"
          [] OTHER -> "discard"

\* The tables after frame v has been evicted
Evicted(v) ==
    LET o == frames[v].owner_thread
        up == frames[v].page_addr
        e == Tenant(v)
        kind == EvictKind(v)
        s == Min(FreeSlots)
    IN  IF kind = "none"
        THEN [spt |-> spt, pagedir |-> pagedir, swap |-> swap, files |-> files]
        ELSE [spt |-> [spt EXCEPT ![o][up] =
                         IF kind = "swap"
                         THEN [@ EXCEPT !.is_swapped = TRUE, !.swap_i = s, !.frame_addr = 0]
                         ELSE [@ EXCEPT !.frame_addr = 0]],
              pagedir |-> [pagedir EXCEPT ![o][up] = NoPTE],
              swap |-> IF kind = "swap"
                       THEN [swap EXCEPT ![s] = [used |-> TRUE, data |-> frames[v].data]]
                       ELSE swap,
              files |-> IF kind = "file"
                        THEN [files EXCEPT ![e.page_file][e.ofs \div PGSIZE] = frames[v].data]
                        ELSE files]

\* frame_alloc(flags, pinned) returning frame v: the tables after it.
\* A free frame is taken as it is; a frame in use is evicted first.
frame_alloc(v, zero, pinned) ==
    LET ev == IF frames[v].in_use THEN Evicted(v)
              ELSE [spt |-> spt, pagedir |-> pagedir, swap |-> swap, files |-> files]
    IN  [spt |-> ev.spt, pagedir |-> ev.pagedir, swap |-> ev.swap, files |-> ev.files,
         frames |-> [frames EXCEPT ![v] =
                        [in_use |-> TRUE, page_addr |-> 0, owner_thread |-> 0,
                         is_evictable |-> ~pinned,
                         data |-> IF zero THEN 0 ELSE frames[v].data]]]

\* frame_alloc cannot deliver v: the victim goes to swap and the swap area is full
AllocFails(v) == frames[v].in_use /\ EvictKind(v) = "swap" /\ FreeSlots = {}
\* the victim is written through to its file: eviction takes filesys_lock
AllocNeedsFs(v) == frames[v].in_use /\ EvictKind(v) = "file"

\* the kernel virtual address of frame f
kaddr(f) == Addr(PHYS_BASE.pg + f, 0)
\* frame_free(addr): the frame of that address, when there is one, is freed
frame_free(fr, addr) == [f \in Frames |-> IF addr = kaddr(f) THEN NoFrame ELSE fr[f]]
\* ------------------------------------------------------------- helpers
\* exit(status): the status is recorded and the thread leaves through
\* thread_exit; a fault handler that called it does not return
exit(t, status) ==
    /\ exit_status' = [exit_status EXCEPT ![t] = status]
    /\ pc' = [pc EXCEPT ![t] = "exiting"]
    /\ pf' = [pf EXCEPT ![t].pc = IF @ = "none" THEN @ ELSE "exit"]
    /\ sys' = [sys EXCEPT ![t] = NoSys]
    /\ acc' = [acc EXCEPT ![t] = NoAcc]

\* pagedir_set_page
pagedir_set_page(pd, t, upage, kpage, writable) ==
    [pd EXCEPT ![t][upage] =
        [present |-> TRUE, frame |-> kpage, writable |-> writable, dirty |-> FALSE]]
\* pagedir_clear_page
pagedir_clear_page(pd, t, upage) == [pd EXCEPT ![t][upage] = NoPTE]

\* SPT_insert: the hash keeps the entry it already has for the page
SPT_insert(sp, t, upage, entry) ==
    IF sp[t][upage].purpose = "NONE" THEN [sp EXCEPT ![t][upage] = entry] ELSE sp

\* ------------------------------------------------- user memory accesses
\* The MMU lets the access through: page present, and writable for a store
Hit(t, a, w) ==
    /\ a.pg \in VPages
    /\ pagedir[t][a.pg].present
    /\ w => pagedir[t][a.pg].writable

\* The access of a user instruction: done by the MMU, or a page fault
Access(t, a, w, e) ==
    IF Hit(t, a, w)
    THEN /\ pc' = [pc EXCEPT ![t] = "user"]
         /\ acc' = [acc EXCEPT ![t] = NoAcc]
         /\ pagedir' = IF w THEN [pagedir EXCEPT ![t][a.pg].dirty = TRUE] ELSE pagedir
         /\ frames' = IF w THEN [frames EXCEPT ![pagedir[t][a.pg].frame].data = Mark(a.pg)]
                      ELSE frames
         /\ UNCHANGED pf
    ELSE /\ pc' = [pc EXCEPT ![t] = "retry"]
         /\ acc' = [acc EXCEPT ![t] = [addr |-> a, write |-> w, esp |-> e]]
         /\ pf' = [pf EXCEPT ![t] = [pc |-> "entry", fault_addr |-> a, write |-> w,
                                     user |-> TRUE, f_esp |-> e, kpage |-> 0, swap_i |-> 0]]
         /\ UNCHANGED <<pagedir, frames>>

\* the accesses user code makes: address, store or load, stack pointer
Top0 == Addr(TopPg, 0)
Limit16 == Addr(LimitPg, 16)
Accesses ==
    {<<NULL, FALSE, Top0>>, <<PHYS_BASE, TRUE, Top0>>,
     <<Addr(CodePg, 0), FALSE, Top0>>, <<Addr(CodePg, 0), TRUE, Top0>>,
     <<Addr(DataPg, 8), TRUE, Top0>>, <<Addr(M0, 0), TRUE, Top0>>,
     <<Addr(M1, 904), TRUE, Top0>>, <<Addr(TopPg, 100), TRUE, Top0>>,
     <<Addr(SecondPg, PGSIZE - 32), TRUE, Top0>>,
     <<Addr(SecondPg, PGSIZE - 64), TRUE, Top0>>,
     <<Addr(LimitPg, 0), TRUE, Limit16>>, <<Addr(LimitPg, 1), TRUE, Limit16>>,
     <<Addr(BelowPg, PGSIZE - 1), TRUE, Limit16>>}

UserAccess(t, a, w, e) ==
    /\ ~panic /\ pc[t] = "user" /\ ops[t].access > 0
    /\ ops' = [ops EXCEPT ![t].access = @ - 1]
    /\ Access(t, a, w, e)
    /\ UNCHANGED <<sys, esp, exit_status, eax, spt, mmap_table, swap, files,
                   filesys_lock, reopened, unmap_log, panic>>

\* the faulting instruction is executed again after the handler returned
Retry(t) ==
    /\ ~panic /\ pc[t] = "retry" /\ pf[t].pc = "none"
    /\ Access(t, acc[t].addr, acc[t].write, acc[t].esp)
    /\ UNCHANGED <<ops, sys, esp, exit_status, eax, spt, mmap_table, swap, files,
                   filesys_lock, reopened, unmap_log, panic>>
\* ------------------------------------------------------------ page_fault
\* the handler returns: a user fault goes back to its instruction, a kernel
\* fault to the system call it interrupted
PfReturn(t) == pf' = [pf EXCEPT ![t] = NoPf]

\* exit(-1) from the handler
PfExit(t) ==
    /\ exit(t, 0 - 1)
    /\ UNCHANGED <<ops, esp, eax, spt, pagedir, mmap_table, frames, swap, files,
                   filesys_lock, reopened, unmap_log, panic>>

\* which branch of the handler serves an entry
PfPath(e) ==
    CASE e.purpose = "NONE" -> "growth"
      [] e.purpose = "FOR_STACK" /\ ~e.is_swapped -> "stack"
      [] e.purpose = "FOR_STACK" /\ e.is_swapped -> "stack_swap"
      [] e.purpose \in {"FOR_FILE", "FOR_MMAP"} /\ ~e.is_swapped -> "file"
      [] OTHER -> "swap"

\* the stack limit test of the handler: fault_addr <= PHYS_BASE - 0x800000
BelowStackLimit(fault_addr) == ptr_le(fault_addr, ptr_sub(PHYS_BASE, STACK_MAX))

\* a handler whose window below the stack pointer is twice as wide
WithinHeuristic_wide(fault_addr, user_esp) ==
    ptr_ge(fault_addr, ptr_sub(user_esp, 2 * STACK_HEURISTIC))
\* the growth heuristic of the handler: fault_addr >= esp - 32
WithinHeuristic(fault_addr, user_esp) ==
    ptr_ge(fault_addr, ptr_sub(user_esp, STACK_HEURISTIC))

\* a handler that lets every write through
WriteDenied_never(write, fault_page) == FALSE
\* the permission test of the handler: write && !writable
WriteDenied(write, fault_page) == write /\ ~fault_page.is_writable

\* the stack pointer the handler consults
PfEsp(t) == IF pf[t].user THEN pf[t].f_esp ELSE esp[t]

\* frame_alloc and the assignments that follow it, up to the next point where
\* the handler waits or can be preempted
PfAlloc(t, path) ==
    \E v \in AllocChoices :
        LET upage == pg_round_down(pf[t].fault_addr)
            zero == path = "growth"
            pinned == path \in {"file", "swap"}
            r == frame_alloc(v, zero, pinned)
            tenant == path \in {"file", "swap", "stack_swap"}
            claimed == path # "stack"
            fr == [r.frames EXCEPT
                     ![v].page_addr = IF tenant THEN upage ELSE @,
                     ![v].is_evictable = IF claimed THEN TRUE ELSE @,
                     ![v].owner_thread = IF claimed THEN t ELSE @]
            sp == IF path = "growth" THEN r.spt
                  ELSE [r.spt EXCEPT
                          ![t][upage].frame_addr = v,
                          ![t][upage].is_swapped =
                              IF path \in {"file", "stack_swap"} THEN FALSE ELSE @]
        IN  IF AllocFails(v)
            THEN PfExit(t)
            ELSE IF AllocNeedsFs(v) /\ filesys_lock = t
            THEN /\ panic' = TRUE
                 /\ UNCHANGED <<pc, ops, acc, sys, pf, esp, exit_status, eax, spt, pagedir,
                                mmap_table, frames, swap, files, filesys_lock, reopened,
                                unmap_log>>
            ELSE /\ AllocNeedsFs(v) => filesys_lock = 0
                 /\ frames' = fr
                 /\ spt' = sp
                 /\ pagedir' = r.pagedir
                 /\ swap' = r.swap
                 /\ files' = r.files
                 /\ pf' = [pf EXCEPT ![t].pc = path, ![t].kpage = v,
                                     ![t].swap_i = SPT_search(t, upage).swap_i]
                 /\ UNCHANGED <<pc, ops, acc, sys, esp, exit_status, eax, mmap_table,
                                filesys_lock, reopened, unmap_log, panic>>

\* page_fault from its entry to frame_alloc's return
page_fault(t) ==
    /\ ~panic /\ pf[t].pc = "entry"
    /\ LET fault_addr == pf[t].fault_addr
           fault_page == SPT_search(t, pg_round_down(fault_addr))
       IN  IF fault_addr = NULL \/ ~is_user_vaddr(fault_addr)
           THEN PfExit(t)
           ELSE IF fault_page.purpose = "NONE"
           THEN IF BelowStackLimit(fault_addr)
                THEN PfExit(t)
                ELSE IF WithinHeuristic(fault_addr, PfEsp(t))
                THEN PfAlloc(t, "growth")
                ELSE PfExit(t)
           ELSE IF WriteDenied(pf[t].write, fault_page)
           THEN PfExit(t)
           ELSE PfAlloc(t, PfPath(fault_page))

\* how the I/O and the install of a handler end: file_read can return short,
\* pagedir_set_page can fail for want of memory for a page table
PfOutcomes(t) ==
    IF ops[t].fail = 0 THEN {"ok"}
    ELSE IF pf[t].pc = "file" THEN {"ok", "short_read", "install_failed"}
    ELSE {"ok", "install_failed"}

\* FOR_FILE and FOR_MMAP.  Not swapped: file_read ends, a short read being
\* answered by frame_free and exit(-1); memset, pagedir_set_page.
\* Swapped: SD_read ends, is_swapped = false, pagedir_set_page.
\* A failed pagedir_set_page is reported with printf and the handler returns.
page_fault_file(t) ==
    /\ ~panic /\ pf[t].pc \in {"file", "swap"}
    /\ \E out \in PfOutcomes(t) :
        LET upage == pg_round_down(pf[t].fault_addr)
            kpage == pf[t].kpage
            e == spt[t][upage]
        IN  /\ ops' = IF out = "ok" THEN ops ELSE [ops EXCEPT ![t].fail = @ - 1]
            /\ IF out = "short_read"
               THEN /\ frames' = frame_free(frames, kaddr(kpage))
                    /\ exit(t, 0 - 1)
                    /\ UNCHANGED <<spt, pagedir>>
               ELSE /\ frames' = [frames EXCEPT ![kpage].data =
                                    IF pf[t].pc = "file"
                                    THEN files[e.page_file][e.ofs \div PGSIZE]
                                    ELSE swap[pf[t].swap_i].data]
                    /\ spt' = IF pf[t].pc = "file" THEN spt
                              ELSE [spt EXCEPT ![t][upage].is_swapped = FALSE]
                    /\ pagedir' = IF out = "ok"
                                  THEN pagedir_set_page(pagedir, t, upage, kpage, e.is_writable)
                                  ELSE pagedir
                    /\ PfReturn(t)
                    /\ UNCHANGED <<pc, acc, sys, exit_status>>
    /\ UNCHANGED <<esp, eax, mmap_table, swap, files, filesys_lock, reopened, unmap_log,
                   panic>>

\* The stack paths.  Growth: pagedir_set_page, SPT_insert.  FOR_STACK: for a
\* swapped page SD_read ends; pagedir_set_page.  All: thread->esp = fault_addr.
\* The result of pagedir_set_page is not looked at.
page_fault_stack(t) ==
    /\ ~panic /\ pf[t].pc \in {"growth", "stack", "stack_swap"}
    /\ \E out \in PfOutcomes(t) :
        LET upage == pg_round_down(pf[t].fault_addr)
            kpage == pf[t].kpage
        IN  /\ ops' = IF out = "ok" THEN ops ELSE [ops EXCEPT ![t].fail = @ - 1]
            /\ frames' = IF pf[t].pc = "stack_swap"
                         THEN [frames EXCEPT ![kpage].data = swap[pf[t].swap_i].data]
                         ELSE frames
            /\ pagedir' = IF out = "ok"
                          THEN pagedir_set_page(pagedir, t, upage, kpage,
                                   IF pf[t].pc = "growth" THEN TRUE
                                   ELSE spt[t][upage].is_writable)
                          ELSE pagedir
            /\ spt' = IF pf[t].pc = "growth"
                      THEN SPT_insert(spt, t, upage,
                                      NewPage(0, 0, kpage, 0, PGSIZE, TRUE, "FOR_STACK"))
                      ELSE spt
    /\ esp' = [esp EXCEPT ![t] = pf[t].fault_addr]
    /\ PfReturn(t)
    /\ UNCHANGED <<pc, acc, sys, exit_status, eax, mmap_table, swap, files,
                   filesys_lock, reopened, unmap_log, panic>>

\* ---------------------------------------------------------- system calls
\* check_valid lets the address through
check_valid(t, a) == a # NULL /\ is_user_vaddr(a) /\ pagedir_get_page(t, a) # 0
\* the checks of the stack pointer and of the n argument slots above it
ArgsValid(t, e, n) == \A i \in 0..n : check_valid(t, ptr_add(e, 4 * i))

SysExit(t) ==
    /\ exit(t, 0 - 1)
    /\ UNCHANGED <<esp, eax, spt, pagedir, mmap_table, frames, swap, files,
                   filesys_lock, reopened, unmap_log, panic>>

\* the system call returns v to the user
SysReturn(t, v) ==
    /\ eax' = [eax EXCEPT ![t] = v]
    /\ sys' = [sys EXCEPT ![t] = NoSys]
    /\ pc' = [pc EXCEPT ![t] = "user"]

\* stack pointers system calls are made with
SysEsps == {Addr(TopPg, 64), Addr(SecondPg, PGSIZE - 8)}

\* SYS_EXIT
syscall_exit(t, e, status) ==
    /\ ~panic /\ pc[t] = "user"
    /\ UNCHANGED ops
    /\ exit(t, IF ArgsValid(t, e, 1) THEN status ELSE 0 - 1)
    /\ UNCHANGED <<esp, eax, spt, pagedir, mmap_table, frames, swap, files,
                   filesys_lock, reopened, unmap_log, panic>>

\* pages a mapping of size bytes covers
MapPages(size) == (size + PGSIZE - 1) \div PGSIZE
\* find_mapping_addr: the first mapping whose range holds addr
MappingsAt(tab, a) ==
    {i \in 1..Len(tab) : tab[i].addr <= a.pg /\ a.pg < tab[i].addr + MapPages(tab[i].size)}
find_mapping_addr(tab, a) == IF MappingsAt(tab, a) = {} THEN 0 ELSE Min(MappingsAt(tab, a))
\* find_mapping_id: the first mapping of that id, 0 when there is none
MappingsOf(tab, id) == {i \in 1..Len(tab) : tab[i].id = id}
\* a lookup that falls back on the first mapping of the table
find_mapping_id_first(tab, id) ==
    IF tab = <<>> THEN 0
    ELSE IF MappingsOf(tab, id) = {} THEN 1 ELSE Min(MappingsOf(tab, id))
find_mapping_id(tab, id) == IF MappingsOf(tab, id) = {} THEN 0 ELSE Min(MappingsOf(tab, id))

\* the id mmap gives a new mapping
mmap_id(tab) == Len(tab) + 1

\* a validation without the alignment test
mmap_valid_unaligned(t, fd, addr) ==
    /\ ~(fd = 0 \/ fd = 1 \/ addr = NULL)
    /\ fd_table(fd) # 0
    /\ file_length(fd_table(fd)) # 0
    /\ find_mapping_addr(mmap_table[t], addr) = 0
    /\ ~(ptr_ge(addr, ptr_sub(PHYS_BASE, PGSIZE)) \/ ptr_le(addr, DataStart))
\* mmap's validation: the call goes on to build the mapping
mmap_valid(t, fd, addr) ==
    /\ ~(fd = 0 \/ fd = 1 \/ addr = NULL)
    /\ pg_ofs(addr) = 0
    /\ fd_table(fd) # 0
    /\ file_length(fd_table(fd)) # 0
    /\ find_mapping_addr(mmap_table[t], addr) = 0
    /\ ~(ptr_ge(addr, ptr_sub(PHYS_BASE, PGSIZE)) \/ ptr_le(addr, DataStart))

\* the ids munmap is called with
MunmapIds == 1..2

\* the calls of mmap the user makes
MmapArgs ==
    {<<2, pg_addr(M0)>>, <<2, pg_addr(M1)>>, <<3, pg_addr(M0)>>, <<3, pg_addr(SecondPg)>>,
     <<2, pg_addr(SecondPg)>>,
     <<0, pg_addr(M0)>>, <<4, pg_addr(M0)>>, <<5, pg_addr(M0)>>,
     <<2, NULL>>, <<2, Addr(M0, 4)>>, <<2, pg_addr(TopPg)>>, <<2, DataStart>>}

\* SYS_MMAP: the argument checks, mmap's validation, the new mapping record
syscall_mmap(t, e, fd, addr) ==
    /\ ~panic /\ pc[t] = "user" /\ ops[t].mmap > 0
    /\ ops' = [ops EXCEPT ![t].mmap = @ - 1]
    /\ IF ~ArgsValid(t, e, 2)
       THEN SysExit(t)
       ELSE IF ~mmap_valid(t, fd, addr)
       THEN /\ SysReturn(t, 0 - 1)
            /\ UNCHANGED <<acc, pf, esp, exit_status, spt, pagedir, mmap_table, frames, swap,
                           files, filesys_lock, reopened, unmap_log, panic>>
       ELSE /\ mmap_table' = [mmap_table EXCEPT ![t] = Append(@,
                   [id |-> mmap_id(mmap_table[t]), addr |-> addr.pg,
                    size |-> file_length(fd_table(fd)), file |-> fd_table(fd),
                    fd |-> fd, pages |-> <<>>])]
            /\ reopened' = reopened + 1
            /\ sys' = [sys EXCEPT ![t] = [op |-> "mmap", pc |-> "mmap_loop", f_esp |-> e,
                         fd |-> fd, addr |-> addr, id |-> mmap_id(mmap_table[t]),
                         read_bytes |-> file_length(fd_table(fd)), ofs |-> 0,
                         upage |-> addr.pg]]
            /\ pc' = [pc EXCEPT ![t] = "sys"]
            /\ UNCHANGED <<acc, pf, esp, exit_status, eax, spt, pagedir, frames, swap,
                           files, filesys_lock, unmap_log, panic>>

\* mmap's loop: the test, and for one more page palloc_get_page, SPT_insert,
\* list_push_back and the call of file_read; else the return of the id
mmap_loop(t) ==
    /\ ~panic /\ pc[t] = "sys" /\ sys[t].pc = "mmap_loop" /\ pf[t].pc = "none"
    /\ IF sys[t].read_bytes > 0
       THEN LET page_read_bytes == IF sys[t].read_bytes < PGSIZE THEN sys[t].read_bytes
                                   ELSE PGSIZE
                page_zero_bytes == PGSIZE - page_read_bytes
                m == Len(mmap_table[t])
            IN  /\ spt' = SPT_insert(spt, t, sys[t].upage,
                                     NewPage(mmap_table[t][m].file, sys[t].ofs, KPAGE,
                                             page_read_bytes, page_zero_bytes, TRUE,
                                             "FOR_MMAP"))
                /\ mmap_table' = [mmap_table EXCEPT ![t][m].pages = Append(@, sys[t].upage)]
                /\ sys' = [sys EXCEPT ![t].pc = "mmap_read"]
                /\ UNCHANGED <<pc, eax>>
       ELSE /\ SysReturn(t, sys[t].id)
            /\ UNCHANGED <<spt, mmap_table>>
    /\ UNCHANGED <<ops, acc, pf, esp, exit_status, pagedir, frames, swap, files,
                   filesys_lock, reopened, unmap_log, panic>>

\* mmap's loop: file_read ends with the whole page read; memset; the counters
mmap_read(t) ==
    /\ ~panic /\ pc[t] = "sys" /\ sys[t].pc = "mmap_read" /\ pf[t].pc = "none"
    /\ LET page_read_bytes == IF sys[t].read_bytes < PGSIZE THEN sys[t].read_bytes
                              ELSE PGSIZE
       IN  sys' = [sys EXCEPT ![t].pc = "mmap_loop",
                              ![t].read_bytes = @ - page_read_bytes,
                              ![t].upage = @ + 1,
                              ![t].ofs = @ + page_read_bytes]
    /\ UNCHANGED <<pc, ops, acc, pf, esp, exit_status, eax, spt, pagedir, mmap_table, frames,
                   swap, files, filesys_lock, reopened, unmap_log, panic>>

\* ---------------------------------------------------------------- munmap
\* the pages munmap_write's walk over the SPT writes: FOR_MMAP and dirty
DirtyMmapPages(sp, pd, t) ==
    {pg \in VPages : sp[t][pg].purpose = "FOR_MMAP" /\ pd[t][pg].present /\ pd[t][pg].dirty}

\* the orders in which a walk over the hash table can meet the pages of S
Orders(S) ==
    {o \in [1..Cardinality(S) -> S] : \A i, j \in 1..Cardinality(S) : o[i] = o[j] => i = j}

\* file_write_at(p->page_file, p->page_addr, p->read_bytes, p->ofs) for the
\* pages of order o that are dirty, one after the other
RECURSIVE WriteBack(_, _, _, _, _, _)
WriteBack(fl, sp, pd, fr, t, o) ==
    IF o = <<>> THEN fl
    ELSE LET pg == Head(o)
             e == sp[t][pg]
         IN  IF pg \in DirtyMmapPages(sp, pd, t)
             THEN WriteBack([fl EXCEPT ![e.page_file][e.ofs \div PGSIZE] = fr[pd[t][pg].frame].data],
                            sp, pd, fr, t, Tail(o))
             ELSE WriteBack(fl, sp, pd, fr, t, Tail(o))

\* the file_write_at calls of one munmap_write
WriteLog(sp, pd, t) ==
    {[file |-> sp[t][pg].page_file, idx |-> sp[t][pg].ofs \div PGSIZE, page |-> pg] :
        pg \in DirtyMmapPages(sp, pd, t)}

\* munmap_free's loop over the pages of mapping i: frame_free(p->page_addr),
\* pagedir_clear_page, hash_delete; then list_remove
RECURSIVE FreePages(_, _, _)
FreePages(st, t, pages) ==
    IF pages = <<>> THEN st
    ELSE FreePages([st EXCEPT !.frames = frame_free(st.frames, pg_addr(Head(pages))),
                              !.pagedir = pagedir_clear_page(st.pagedir, t, Head(pages)),
                              !.spt = [st.spt EXCEPT ![t][Head(pages)] = NoPage]],
                   t, Tail(pages))
Range(seq) == {seq[i] : i \in 1..Len(seq)}
RemoveAt(seq, i) == SubSeq(seq, 1, i - 1) \o SubSeq(seq, i + 1, Len(seq))
munmap_free_tables(st, t, i) ==
    [FreePages(st, t, st.mmap_table[t][i].pages)
        EXCEPT !.mmap_table = [st.mmap_table EXCEPT ![t] = RemoveAt(@, i)]]

Tables == [spt |-> spt, pagedir |-> pagedir, frames |-> frames, mmap_table |-> mmap_table]

\* SYS_MUNMAP: the argument checks
syscall_munmap(t, e, id) ==
    /\ ~panic /\ pc[t] = "user" /\ ops[t].munmap > 0
    /\ ops' = [ops EXCEPT ![t].munmap = @ - 1]
    /\ IF ~ArgsValid(t, e, 1)
       THEN /\ SysExit(t)
       ELSE /\ sys' = [sys EXCEPT ![t] = [NoSys EXCEPT !.op = "munmap", !.pc = "munmap_write",
                                                       !.f_esp = e, !.id = id]]
            /\ pc' = [pc EXCEPT ![t] = "sys"]
            /\ UNCHANGED <<acc, pf, esp, exit_status, eax, spt, pagedir, mmap_table, frames,
                           swap, files, filesys_lock, reopened, unmap_log, panic>>

\* munmap_write: exit(-1) for an unknown id; else, under filesys_lock, the
\* dirty FOR_MMAP pages of the SPT are written to their files
munmap_write(t) ==
    /\ ~panic /\ pc[t] = "sys" /\ sys[t].pc = "munmap_write" /\ pf[t].pc = "none"
    /\ IF find_mapping_id(mmap_table[t], sys[t].id) = 0
       THEN /\ exit(t, 0 - 1)
            /\ UNCHANGED <<files, unmap_log>>
       ELSE /\ filesys_lock = 0
            /\ \E o \in Orders(DirtyMmapPages(spt, pagedir, t)) :
                   files' = WriteBack(files, spt, pagedir, frames, t, o)
            /\ unmap_log' = [unmap_log EXCEPT ![t] = Append(@,
                   [id |-> sys[t].id, path |-> "munmap",
                    wrote |-> WriteLog(spt, pagedir, t), removed |-> {}])]
            /\ sys' = [sys EXCEPT ![t].pc = "munmap_free"]
            /\ UNCHANGED <<pc, acc, pf, exit_status>>
    /\ UNCHANGED <<ops, esp, eax, spt, pagedir, mmap_table, frames, swap, filesys_lock,
                   reopened, panic>>

\* munmap_free: exit(-1) for an unknown id; else the pages of the mapping and
\* the mapping record go; the reopened file stays open
munmap_free(t) ==
    /\ ~panic /\ pc[t] = "sys" /\ sys[t].pc = "munmap_free" /\ pf[t].pc = "none"
    /\ LET i == find_mapping_id(mmap_table[t], sys[t].id)
           r == munmap_free_tables(Tables, t, i)
       IN  IF i = 0
           THEN /\ exit(t, 0 - 1)
                /\ UNCHANGED <<eax, spt, pagedir, frames, mmap_table, unmap_log>>
           ELSE /\ spt' = r.spt
                /\ pagedir' = r.pagedir
                /\ frames' = r.frames
                /\ mmap_table' = r.mmap_table
                /\ unmap_log' = [unmap_log EXCEPT ![t][Len(unmap_log[t])].removed =
                                     Range(mmap_table[t][i].pages)]
                /\ SysReturn(t, eax[t])
                /\ UNCHANGED <<acc, pf, exit_status>>
    /\ UNCHANGED <<ops, esp, swap, files, filesys_lock, reopened, panic>>

\* ---------------------------------------------------------- process exit
\* the implicit unmap of every mapping, in insertion order: munmap_write and
\* munmap_free for the id of the first mapping, until none is left
RECURSIVE ExitMappings(_, _, _)
ExitMappings(st, t, o) ==
    IF st.mmap_table[t] = <<>> THEN st
    ELSE LET id == st.mmap_table[t][1].id
             i == find_mapping_id(st.mmap_table[t], id)
             written == [st EXCEPT
                 !.files = WriteBack(st.files, st.spt, st.pagedir, st.frames, t, o),
                 !.log = Append(@, [id |-> id, path |-> "exit",
                                    wrote |-> WriteLog(st.spt, st.pagedir, t),
                                    removed |-> Range(st.mmap_table[t][i].pages)])]
         IN  ExitMappings(munmap_free_tables(written, t, i), t, o)

\* thread_exit: the mappings are unmapped, then the SPT is destroyed with the
\* frames and swap slots its entries hold, and the page directory with it;
\* the thread runs no more
process_exit(t) ==
    /\ ~panic /\ pc[t] = "exiting"
    /\ IF mmap_table[t] # <<>> /\ filesys_lock = t
       THEN /\ panic' = TRUE
            /\ UNCHANGED <<pc, spt, pagedir, mmap_table, frames, swap, files, unmap_log>>
       ELSE /\ mmap_table[t] # <<>> => filesys_lock = 0
            /\ \E o \in Orders(DirtyMmapPages(spt, pagedir, t)) :
                 LET st == ExitMappings([spt |-> spt, pagedir |-> pagedir, frames |-> frames,
                                         mmap_table |-> mmap_table, files |-> files,
                                         log |-> unmap_log[t]], t, o)
                     held(f) == \E pg \in VPages : /\ st.spt[t][pg].purpose # "NONE"
                                                   /\ st.spt[t][pg].frame_addr = f
                     slot(x) == \E pg \in VPages : /\ st.spt[t][pg].is_swapped
                                                   /\ st.spt[t][pg].swap_i = x
                 IN  /\ files' = st.files
                     /\ unmap_log' = [unmap_log EXCEPT ![t] = st.log]
                     /\ mmap_table' = st.mmap_table
                     /\ frames' = [f \in Frames |-> IF held(f) THEN NoFrame ELSE st.frames[f]]
                     /\ swap' = [x \in Slots |-> IF slot(x) THEN NoSlot ELSE swap[x]]
                     /\ spt' = [st.spt EXCEPT ![t] = [pg \in VPages |-> NoPage]]
                     /\ pagedir' = [st.pagedir EXCEPT ![t] = [pg \in VPages |-> NoPTE]]
            /\ pc' = [pc EXCEPT ![t] = "dead"]
            /\ UNCHANGED panic
    /\ pf' = [pf EXCEPT ![t] = NoPf]
    /\ ops' = [ops EXCEPT ![t] = NoOps]
    /\ eax' = [eax EXCEPT ![t] = 0]
    /\ UNCHANGED <<acc, sys, esp, exit_status, filesys_lock, reopened>>

\* ------------------------------------------------------------------ read
\* the calls of read the user makes: descriptor and buffer, one byte
ReadArgs ==
    {<<2, Addr(TopPg, 128)>>, <<2, Addr(SecondPg, PGSIZE - 16)>>, <<2, Addr(CodePg, 0)>>,
     <<2, Addr(M0, 0)>>, <<1, Addr(TopPg, 128)>>, <<5, Addr(TopPg, 128)>>}

\* a fault taken in kernel mode at address a
KernelFault(t, a, w) ==
    pf' = [pf EXCEPT ![t] = [pc |-> "entry", fault_addr |-> a, write |-> w, user |-> FALSE,
                             f_esp |-> NULL, kpage |-> 0, swap_i |-> 0]]

\* SYS_READ: the argument checks
syscall_read(t, e, fd, buf) ==
    /\ ~panic /\ pc[t] = "user" /\ ops[t].read > 0
    /\ ops' = [ops EXCEPT ![t].read = @ - 1]
    /\ IF ~ArgsValid(t, e, 3)
       THEN /\ SysExit(t)
       ELSE /\ sys' = [sys EXCEPT ![t] = [NoSys EXCEPT !.op = "read", !.pc = "touch",
                                                       !.f_esp = e, !.fd = fd, !.addr = buf]]
            /\ pc' = [pc EXCEPT ![t] = "sys"]
            /\ UNCHANGED <<acc, pf, esp, exit_status, eax, spt, pagedir, mmap_table, frames,
                           swap, files, filesys_lock, reopened, unmap_log, panic>>

\* touch_addr(buffer) and the checks that follow it, in syscall_handler and in read
read_touch(t) ==
    /\ ~panic /\ pc[t] = "sys" /\ sys[t].pc = "touch" /\ pf[t].pc = "none"
    /\ IF ~Hit(t, sys[t].addr, FALSE)
       THEN /\ KernelFault(t, sys[t].addr, FALSE)
            /\ UNCHANGED <<pc, acc, sys, exit_status>>
       ELSE IF sys[t].fd < 0 \/ sys[t].fd = 1
       THEN /\ exit(t, 0 - 1)
       ELSE /\ sys' = [sys EXCEPT ![t].pc = "lock"]
            /\ UNCHANGED <<pc, acc, pf, exit_status>>
    /\ UNCHANGED <<ops, esp, eax, spt, pagedir, mmap_table, frames, swap, files,
                   filesys_lock, reopened, unmap_log, panic>>

\* read: lock_acquire(&filesys_lock); -1 for a descriptor that is not open
read_lock(t) ==
    /\ ~panic /\ pc[t] = "sys" /\ sys[t].pc = "lock" /\ pf[t].pc = "none"
    /\ filesys_lock = 0
    /\ IF fd_table(sys[t].fd) = 0
       THEN /\ SysReturn(t, 0 - 1)
            /\ UNCHANGED filesys_lock
       ELSE /\ filesys_lock' = t
            /\ sys' = [sys EXCEPT ![t].pc = "file_read"]
            /\ UNCHANGED <<pc, eax>>
    /\ UNCHANGED <<ops, acc, pf, esp, exit_status, spt, pagedir, mmap_table, frames, swap,
                   files, reopened, unmap_log, panic>>

\* read: file_read(f, buffer, size) stores into the user's buffer, under
\* filesys_lock; lock_release
read_file_read(t) ==
    /\ ~panic /\ pc[t] = "sys" /\ sys[t].pc = "file_read" /\ pf[t].pc = "none"
    /\ LET a == sys[t].addr
       IN  IF ~Hit(t, a, TRUE)
           THEN /\ KernelFault(t, a, TRUE)
                /\ UNCHANGED <<pc, sys, eax, pagedir, frames, filesys_lock>>
           ELSE /\ pagedir' = [pagedir EXCEPT ![t][a.pg].dirty = TRUE]
                /\ frames' = [frames EXCEPT ![pagedir[t][a.pg].frame].data =
                                 files[fd_table(sys[t].fd)][0]]
                /\ filesys_lock' = 0
                /\ SysReturn(t, 1)
                /\ UNCHANGED pf
    /\ UNCHANGED <<ops, acc, esp, exit_status, spt, mmap_table, swap, files, reopened,
                   unmap_log, panic>>

\* ----------------------------------------------------------------- Next
\* user code running, its page faults, and exit
NextFault ==
    \/ \E t \in Threads, a \in Accesses : UserAccess(t, a[1], a[2], a[3])
    \/ \E t \in Threads : Retry(t)
    \/ \E t \in Threads : page_fault(t)
    \/ \E t \in Threads : page_fault_file(t)
    \/ \E t \in Threads : page_fault_stack(t)
    \/ \E t \in Threads : syscall_exit(t, Addr(TopPg, 64), 0)
    \/ \E t \in Threads : process_exit(t)

\* with the system calls mmap and munmap
Next ==
    \/ NextFault
    \/ \E t \in Threads, a \in MmapArgs : syscall_mmap(t, Addr(TopPg, 64), a[1], a[2])
    \/ \E t \in Threads : mmap_loop(t)
    \/ \E t \in Threads : mmap_read(t)
    \/ \E t \in Threads, e \in SysEsps, id \in MunmapIds : syscall_munmap(t, e, id)
    \/ \E t \in Threads : munmap_write(t)
    \/ \E t \in Threads : munmap_free(t)

\* with the system call read
NextMT ==
    \/ NextFault
    \/ \E t \in Threads, a \in ReadArgs : syscall_read(t, Addr(TopPg, 64), a[1], a[2])
    \/ \E t \in Threads : read_touch(t)
    \/ \E t \in Threads : read_lock(t)
    \/ \E t \in Threads : read_file_read(t)

Spec == Init /\ [][Next]_vars
SpecMT == InitMT /\ [][NextMT]_vars
SpecF == InitF /\ [][NextFault]_vars

\* --------------------------------------------------------------- claims
\* C1: a fault at a user address whose page has no SPT entry ends in exit(-1)
\* when fault_addr < PHYS_BASE - 8 MiB, and is served by stack growth, the
\* process going on, when fault_addr >= PHYS_BASE - 8 MiB (that address
\* included) and fault_addr >= user_esp - 32 (a frame being available).
C1_StackLimitBoundary ==
    [][\A t \in Threads :
         LET fault_addr == pf[t].fault_addr
             limit == ptr_sub(PHYS_BASE, STACK_MAX)
         IN  (/\ pf[t].pc = "entry" /\ pf'[t] # pf[t]
              /\ fault_addr # NULL /\ is_user_vaddr(fault_addr)
              /\ SPT_search(t, pg_round_down(fault_addr)).purpose = "NONE"
              /\ \A v \in AllocChoices : ~AllocFails(v))
             => IF ~ptr_ge(fault_addr, limit)
                THEN pc'[t] = "exiting" /\ exit_status'[t] = 0 - 1
                ELSE ptr_ge(fault_addr, ptr_sub(PfEsp(t), STACK_HEURISTIC))
                     => pc'[t] # "exiting" /\ pf'[t].pc = "growth"]_vars

\* C2: a fault at a user address above the stack limit, whose page has no SPT
\* entry, with fault_addr < user_esp - 32: the handler ends in exit(-1), and
\* leaves the SPT, the frame table, the swap area, the page directory and the
\* recorded stack pointer as they were.
C2_GrowthDenied ==
    [][\A t \in Threads :
         LET fault_addr == pf[t].fault_addr
             limit == ptr_sub(PHYS_BASE, STACK_MAX)
         IN  (/\ pf[t].pc = "entry" /\ pf'[t] # pf[t]
              /\ fault_addr # NULL /\ is_user_vaddr(fault_addr)
              /\ SPT_search(t, pg_round_down(fault_addr)).purpose = "NONE"
              /\ ptr_ge(fault_addr, limit) /\ fault_addr # limit
              /\ ~ptr_ge(fault_addr, ptr_sub(PfEsp(t), STACK_HEURISTIC)))
             => /\ pc'[t] = "exiting" /\ exit_status'[t] = 0 - 1
                /\ pf'[t].pc = "exit"
                /\ spt' = spt /\ frames' = frames /\ swap' = swap
                /\ pagedir' = pagedir /\ esp' = esp]_vars

\* a handler has ended in exit(-1) for a fault 64 bytes below the stack
\* pointer, on a page above the limit that has no SPT entry
C2_Witness ==
    \E t \in Threads :
        /\ pc[t] = "exiting" /\ pf[t].pc = "exit" /\ exit_status[t] = 0 - 1
        /\ pf[t].fault_addr = ptr_sub(pf[t].f_esp, 2 * STACK_HEURISTIC)
        /\ pf[t].user
        /\ ptr_ge(pf[t].fault_addr, ptr_sub(PHYS_BASE, STACK_MAX))
        /\ SPT_search(t, pg_round_down(pf[t].fault_addr)).purpose = "NONE"
        /\ ~pagedir[t][pg_round_down(pf[t].fault_addr)].present

\* C3: when a page fault is taken in kernel mode while a system call is being
\* serviced, the stack pointer recorded on the thread, which the handler
\* consults, is the user's stack pointer at that call's entry.
C3_EspRecordedAtEntry ==
    \A t \in Threads :
        (pf[t].pc = "entry" /\ ~pf[t].user /\ sys[t].op # "none")
        => (PfEsp(t) = sys[t].f_esp)

\* C4: no two mappings in a process's mapping table have the same id.
C4_UniqueIds ==
    \A t \in Threads : \A i, j \in 1..Len(mmap_table[t]) :
        i # j => mmap_table[t][i].id # mmap_table[t][j].id

\* C5: mmap goes on to build a mapping only when no page of the requested range
\* is a page of an existing mapping or has an SPT entry, and the mappings of a
\* process cover pairwise disjoint sets of pages.
C5_NoOverlap ==
    [][\A t \in Threads :
         /\ (sys[t].op = "none" /\ sys'[t].op = "mmap")
            => \A k \in 0..(MapPages(sys'[t].read_bytes) - 1) :
                 LET a == ptr_add(sys'[t].addr, k * PGSIZE)
                 IN  /\ find_mapping_addr(mmap_table[t], a) = 0
                     /\ SPT_search(t, pg_round_down(a)).purpose = "NONE"
         /\ \A i, j \in 1..Len(mmap_table'[t]) :
              i # j => \A p \in 0..(MapPages(mmap_table'[t][i].size) - 1),
                          q \in 0..(MapPages(mmap_table'[t][j].size) - 1) :
                          mmap_table'[t][i].addr + p # mmap_table'[t][j].addr + q]_vars

\* C6: when munmap(id) returns, the file holds, at the recorded offset, the
\* contents of every page of mapping id that was dirty, and munmap has written
\* nothing for a page of the mapping that was not.
C6_DirtyPagesWritten ==
    [][\A t \in Threads :
         (sys[t].pc = "munmap_free" /\ sys'[t].op = "none" /\ pc'[t] = "user")
         => LET i == find_mapping_id(mmap_table[t], sys[t].id)
                last == unmap_log[t][Len(unmap_log[t])]
            IN  \A pg \in Range(mmap_table[t][i].pages) :
                  LET e == spt[t][pg]
                  IN  IF e.purpose = "FOR_MMAP" /\ pagedir_is_dirty(t, pg)
                      THEN files'[e.page_file][e.ofs \div PGSIZE]
                             = frames[pagedir[t][pg].frame].data
                      ELSE \A w \in last.wrote : w.page # pg]_vars

\* C7: when no call of mmap or munmap is under way, the reopened handles that
\* are open are as many as the mappings.
C7_HandlesClosed ==
    (\A t \in Threads : sys[t].op = "none" /\ pc[t] # "exiting")
    => reopened = Len(mmap_table[1]) + Len(mmap_table[2])

\* C8: an unmap run on the exit path for an id that munmap has unmapped before
\* writes to no file and removes no page.
C8_ExitUnmapNoOp ==
    \A t \in Threads : \A j \in 1..Len(unmap_log[t]) :
        (/\ unmap_log[t][j].path = "exit"
         /\ \E i \in 1..(j - 1) : /\ unmap_log[t][i].path = "munmap"
                                  /\ unmap_log[t][i].id = unmap_log[t][j].id)
        => unmap_log[t][j].wrote = {} /\ unmap_log[t][j].removed = {}

\* C9: a frame a fault handler has allocated and not yet installed is not
\* evictable, and no other handler gets it from frame_alloc.
C9_PinnedUntilInstalled ==
    \A t \in Threads :
        pf[t].pc \in {"growth", "file", "swap", "stack", "stack_swap"}
        => /\ frames[pf[t].kpage].in_use
           /\ \A u \in Threads \ {t} :
                pf[u].pc \in {"growth", "file", "swap", "stack", "stack_swap"}
                => pf[u].kpage # pf[t].kpage

\* C10: a thread that is in a file operation of the handler (file_read), of
\* mmap (file_read) or of read holds filesys_lock, and no two threads are in
\* file operations at a time.
C10_FilesysLockHeld ==
    LET InFs(t) == pf[t].pc = "file" \/ sys[t].pc \in {"mmap_read", "file_read"}
    IN  /\ \A t \in Threads : InFs(t) => filesys_lock = t
        /\ \A t, u \in Threads : InFs(t) /\ InFs(u) => t = u

\* C11: no thread enters frame allocation while it holds filesys_lock: a
\* handler that has got a frame from frame_alloc does not run on a thread that
\* holds filesys_lock.
C11_LockOrder ==
    \A t \in Threads :
        pf[t].pc \in {"growth", "file", "swap", "stack", "stack_swap"}
        => filesys_lock # t

\* C12: a handler that has got its frame ends in one of two ways: the page is
\* installed in the page directory on that frame and the handler returns, or
\* the frame is freed and the process exits with status -1.
C12_InstallOrTerminate ==
    [][\A t \in Threads :
         LET upage == pg_round_down(pf[t].fault_addr)
             kpage == pf[t].kpage
         IN  (/\ pf[t].pc \in {"growth", "file", "swap", "stack", "stack_swap"}
              /\ pf'[t] # pf[t])
             => \/ /\ pf'[t].pc = "none"
                   /\ pagedir'[t][upage].present
                   /\ pagedir'[t][upage].frame = kpage
                \/ /\ pf'[t].pc = "exit" /\ pc'[t] = "exiting"
                   /\ exit_status'[t] = 0 - 1
                   /\ ~frames'[kpage].in_use]_vars

\* C13: a fault whose address is NULL or at or above PHYS_BASE ends in
\* exit(-1), whatever the SPT, the access and the stack pointer are, and the
\* handler leaves the frame table, the swap area, the SPT and the page
\* directory as they were.
C13_BadAddressExits ==
    [][\A t \in Threads :
         (/\ pf[t].pc = "entry" /\ pf'[t] # pf[t]
          /\ (pf[t].fault_addr = NULL \/ ptr_ge(pf[t].fault_addr, PHYS_BASE)))
         => /\ pc'[t] = "exiting" /\ exit_status'[t] = 0 - 1
            /\ pf'[t].pc = "exit"
            /\ frames' = frames /\ swap' = swap /\ spt' = spt
            /\ pagedir' = pagedir]_vars

\* a handler has ended in exit(-1) for a fault at an address of the kernel half
C13_Witness ==
    \E t \in Threads :
        /\ pf[t].pc = "exit" /\ pc[t] = "exiting" /\ exit_status[t] = 0 - 1
        /\ ptr_ge(pf[t].fault_addr, PHYS_BASE)

\* C14: a write fault on a page whose SPT entry is not writable ends in
\* exit(-1), whatever the entry's purpose and residency are, and the handler
\* leaves the frame table, the swap area, the page directory and the SPT as
\* they were.
C14_WriteToReadOnlyExits ==
    [][\A t \in Threads :
         LET e == SPT_search(t, pg_round_down(pf[t].fault_addr))
         IN  (/\ pf[t].pc = "entry" /\ pf'[t] # pf[t]
              /\ pf[t].fault_addr # NULL /\ ~ptr_ge(pf[t].fault_addr, PHYS_BASE)
              /\ e.purpose # "NONE" /\ ~e.is_writable /\ pf[t].write)
             => /\ pc'[t] = "exiting" /\ exit_status'[t] = 0 - 1
                /\ pf'[t].pc = "exit"
                /\ frames' = frames /\ swap' = swap /\ spt' = spt
                /\ pagedir' = pagedir]_vars

\* a handler has ended in exit(-1) for a write to a page whose entry is not
\* writable
C14_Witness ==
    \E t \in Threads :
        LET e == SPT_search(t, pg_round_down(pf[t].fault_addr))
        IN  /\ pf[t].pc = "exit" /\ pc[t] = "exiting" /\ exit_status[t] = 0 - 1
            /\ pf[t].write /\ e.purpose = "FOR_FILE" /\ ~e.is_writable

\* C15: munmap of an id the process's mapping table does not hold ends in
\* exit(-1), and the call writes nothing to a file, frees no frame, clears no
\* page-directory mapping and removes no SPT entry and no mapping record.
C15_UnknownIdExits ==
    [][\A t \in Threads :
         (/\ pc[t] = "sys" /\ sys[t].pc = "munmap_write" /\ sys'[t] # sys[t]
          /\ MappingsOf(mmap_table[t], sys[t].id) = {})
         => /\ pc'[t] = "exiting" /\ exit_status'[t] = 0 - 1
            /\ files' = files /\ frames' = frames /\ spt' = spt
            /\ pagedir' = pagedir /\ mmap_table' = mmap_table
            /\ unmap_log' = unmap_log]_vars

\* munmap was called with valid arguments and an unknown id while a mapping
\* had a dirty page: the process is in exit(-1), the mapping and its dirty
\* page are still there and nothing was unmapped
C15_Witness ==
    \E t \in Threads :
        /\ pc[t] = "exiting" /\ exit_status[t] = 0 - 1 /\ pf[t].pc = "none"
        /\ ops[t].munmap < MaxMunmap /\ unmap_log[t] = <<>>
        /\ \A e \in SysEsps : ArgsValid(t, e, 1)
        /\ mmap_table[t] # <<>>
        /\ DirtyMmapPages(spt, pagedir, t) # {}

C17_OneResidency ==
    \A t \in Threads : \A pg \in VPages :
        (spt[t][pg].purpose # "NONE" /\ spt[t][pg].is_swapped)
        => /\ spt[t][pg].frame_addr = 0
           /\ spt[t][pg].swap_i \in Slots /\ swap[spt[t][pg].swap_i].used

\* C18: whenever a process is in user code with no fault and no system call
\* of its own in progress, each of its SPT entries is RESIDENT (references a
\* frame and is not marked swapped) exactly when its page directory has a
\* present mapping of the page to that frame, and a present mapping is
\* writable only if the entry is writable.
C18_ResidentIffMapped ==
    \A t \in Threads : \A pg \in VPages :
        (/\ pc[t] \in {"user", "retry"} /\ pf[t].pc = "none" /\ sys[t].op = "none"
         /\ spt[t][pg].purpose # "NONE")
        => /\ (spt[t][pg].frame_addr # 0 /\ ~spt[t][pg].is_swapped)
              <=> (pagedir[t][pg].present
                   /\ pagedir[t][pg].frame = spt[t][pg].frame_addr)
           /\ (pagedir[t][pg].present /\ pagedir[t][pg].writable)
              => spt[t][pg].is_writable

\* C19: when the handler returns from a stack-growth fault whose install in
\* the page directory succeeded, whatever other processes did meanwhile, the
\* SPT has a FOR_STACK entry for the page of fault_addr that is writable and
\* RESIDENT in the frame the handler allocated, the page directory maps the
\* page writable to that frame, the frame is zero-filled, and the thread's
\* recorded esp is fault_addr.
C19_GrowthInstalled ==
    [][\A t \in Threads :
         LET upage == pg_round_down(pf[t].fault_addr)
             kpage == pf[t].kpage
         IN  (pf[t].pc = "growth" /\ pf'[t].pc = "none" /\ ops'[t] = ops[t])
             => /\ spt'[t][upage].purpose = "FOR_STACK"
                /\ spt'[t][upage].is_writable
                /\ spt'[t][upage].frame_addr = kpage /\ ~spt'[t][upage].is_swapped
                /\ pagedir'[t][upage].present /\ pagedir'[t][upage].writable
                /\ pagedir'[t][upage].frame = kpage
                /\ frames'[kpage].in_use /\ frames'[kpage].data = 0
                /\ esp'[t] = pf[t].fault_addr]_vars

\* C20: for every SPT entry that is RESIDENT in a user frame while its
\* process has no fault in progress, the frame-table entry of that frame has
\* the process as owner thread and the entry's page as page address.
C20_FrameNamesTenant ==
    \A t \in Threads : \A pg \in VPages :
        (/\ pf[t].pc = "none" /\ pc[t] \in {"user", "retry", "sys"}
         /\ spt[t][pg].purpose # "NONE"
         /\ spt[t][pg].frame_addr \in Frames /\ ~spt[t][pg].is_swapped)
        => /\ frames[spt[t][pg].frame_addr].in_use
           /\ frames[spt[t][pg].frame_addr].owner_thread = t
           /\ frames[spt[t][pg].frame_addr].page_addr = pg

\* C21: when mmap returns the id of a new mapping of a file of length L, the
\* mapping's page list is the pages addr, addr + PGSIZE, ... of the range in
\* address order, ceil(L / PGSIZE) of them, and the SPT entry of the i-th of
\* them is a FOR_MMAP entry of the mapping's file with offset i * PGSIZE,
\* read_bytes = min(PGSIZE, L - i * PGSIZE), zero_bytes = PGSIZE - read_bytes
\* and writable.
C21_MmapEntries ==
    [][\A t \in Threads :
         (sys[t].op = "mmap" /\ sys'[t].op = "none" /\ pc'[t] = "user")
         => LET m == mmap_table'[t][Len(mmap_table'[t])]
                L == m.size
                n == (L + PGSIZE - 1) \div PGSIZE
            IN  /\ eax'[t] = m.id
                /\ Len(m.pages) = n
                /\ \A i \in 0..(n - 1) :
                     LET e == spt'[t][m.addr + i]
                     IN  /\ m.pages[i + 1] = m.addr + i
                         /\ e.purpose = "FOR_MMAP"
                         /\ e.page_file = m.file
                         /\ e.ofs = i * PGSIZE
                         /\ e.read_bytes = Min({PGSIZE, L - i * PGSIZE})
                         /\ e.zero_bytes = PGSIZE - e.read_bytes
                         /\ e.is_writable]_vars

\* C22: when mmap returns the id of a new mapping, every FOR_MMAP entry on
\* the mapping's page list is NOT_LOADED: it references no page of memory
\* and is not marked swapped.
C22_MmapLazy ==
    [][\A t \in Threads :
         (sys[t].op = "mmap" /\ sys'[t].op = "none" /\ pc'[t] = "user")
         => LET m == mmap_table'[t][Len(mmap_table'[t])]
            IN  \A i \in 1..Len(m.pages) :
                  spt'[t][m.pages[i]].purpose = "FOR_MMAP"
                  => /\ spt'[t][m.pages[i]].frame_addr = 0
                     /\ ~spt'[t][m.pages[i]].is_swapped]_vars

\* C23: when munmap(id) returns, the mapping record is gone from the mapping
\* table and, for every page of its range that had a FOR_MMAP entry, the SPT
\* has no entry, the page directory has no present mapping, the frame the
\* page was resident in is free and the swap slot the entry held is free.
C23_UnmapReleasesAll ==
    [][\A t \in Threads :
         (sys[t].pc = "munmap_free" /\ sys'[t].op = "none" /\ pc'[t] = "user")
         => LET i == Min(MappingsOf(mmap_table[t], sys[t].id))
                m == mmap_table[t][i]
                covered == {pg \in VPages :
                               /\ m.addr <= pg /\ pg < m.addr + MapPages(m.size)
                               /\ spt[t][pg].purpose = "FOR_MMAP"}
            IN  /\ mmap_table'[t] = RemoveAt(mmap_table[t], i)
                /\ \A pg \in covered :
                     /\ spt'[t][pg].purpose = "NONE"
                     /\ ~pagedir'[t][pg].present
                     /\ (pagedir[t][pg].present /\ pagedir[t][pg].frame \in Frames)
                        => ~frames'[pagedir[t][pg].frame].in_use
                     /\ spt[t][pg].is_swapped
                        => ~swap'[spt[t][pg].swap_i].used]_vars

\* C24: whenever no fault is in progress, every allocated swap slot is owned
\* by exactly one SPT entry that is marked swapped; a slot whose page has
\* been read back into a frame is free again.
C24_SlotsOwned ==
    (\A t \in Threads : pf[t].pc = "none")
    => \A x \in Slots :
         swap[x].used
         => Cardinality({tp \in Threads \X VPages :
                            /\ spt[tp[1]][tp[2]].purpose # "NONE"
                            /\ spt[tp[1]][tp[2]].is_swapped
                            /\ spt[tp[1]][tp[2]].swap_i = x}) = 1

\* C25: every page with a FOR_MMAP entry lies strictly above the page of
\* data_segment_start and strictly below the page PHYS_BASE - PGSIZE, and
\* mmap returns an id only for a range all of whose pages lie there.
C25_MmapRegion ==
    [][\A t \in Threads :
         /\ \A pg \in VPages :
              spt'[t][pg].purpose = "FOR_MMAP"
              => /\ DataStart.pg < pg
                 /\ pg < ptr_sub(PHYS_BASE, PGSIZE).pg
         /\ (sys[t].op = "mmap" /\ sys'[t].op = "none" /\ pc'[t] = "user")
            => LET m == mmap_table'[t][Len(mmap_table'[t])]
               IN  \A i \in 0..(MapPages(m.size) - 1) :
                     /\ DataStart.pg < m.addr + i
                     /\ m.addr + i < ptr_sub(PHYS_BASE, PGSIZE).pg]_vars

\* C26: munmap(id) writes to a file only for pages on the page list of
\* mapping id, and it leaves the files other than the file of mapping id,
\* and the SPT entries and page-directory mappings of the pages that are not
\* on that list, as they were.
C26_UnmapOnlyThatMapping ==
    [][\A t \in Threads :
         LET i == find_mapping_id(mmap_table[t], sys[t].id)
             m == mmap_table[t][i]
         IN  /\ (sys[t].pc = "munmap_write" /\ sys'[t].pc = "munmap_free")
                => /\ \A w \in unmap_log'[t][Len(unmap_log'[t])].wrote :
                        w.page \in Range(m.pages) /\ w.file = m.file
                   /\ \A f \in Files \ {m.file} : files'[f] = files[f]
             /\ (sys[t].pc = "munmap_free" /\ sys'[t].op = "none" /\ pc'[t] = "user")
                => \A pg \in VPages \ Range(m.pages) :
                     spt'[t][pg] = spt[t][pg] /\ pagedir'[t][pg] = pagedir[t][pg]]_vars

\* C27: a call of mmap or munmap whose stack pointer and argument slots are
\* non-null user addresses on pages that have an SPT entry is not ended by
\* the pointer checks of the system-call handler, whether those pages are
\* resident or not.
C27_NonResidentArgsAccepted ==
    [][\A t \in Threads : \A e \in SysEsps :
         LET mapped(n) ==
                 \A i \in 0..n :
                     LET a == ptr_add(e, 4 * i)
                     IN  /\ a # NULL /\ a.pg < PHYS_BASE.pg
                         /\ SPT_search(t, a.pg).purpose # "NONE"
         IN  /\ \A id \in MunmapIds :
                  (syscall_munmap(t, e, id) /\ mapped(1)) => pc'[t] # "exiting"
             /\ \A a \in MmapArgs :
                  (syscall_mmap(t, e, a[1], a[2]) /\ mapped(2)) => pc'[t] # "exiting"]_vars
====
